---- MODULE Spec2Model ----
(***************************************************************************)
(* Model of the scalatrix core: MOS (src/src/mos.cpp), Scale               *)
(* (src/src/scale.cpp) and affineFromThreeDots (src/src/params.cpp).       *)
(*                                                                         *)
(* A C++ double is modelled as an exact extended rational <<n, d>>:        *)
(* d > 0 is the finite value n/d in lowest terms, <<1,0>> is +inf,         *)
(* <<-1,0>> is -inf and <<0,0>> is NaN.  Rounding is not modelled; the     *)
(* IEEE rules for division by zero, inf and NaN are.                       *)
(* pitch = base_freq * exp2(x) is kept symbolically as <<base_freq, x>>.   *)
(***************************************************************************)
EXTENDS Integers, Sequences, FiniteSets, TLC

(* ------------------------------ bounds --------------------------------- *)
\* step counts a, b offered to adjustParams range over 1..MaxStep
MaxStep == 3
\* unfolding depths offered to adjustG / fromG range over 0..MaxDepth
MaxDepth == 2
\* repetitions offered to adjustG / fromG range over 1..MaxReps
MaxReps == 2
\* calls made on the objects after construction
MaxCalls == 2
\* lattice vectors tried by the strip search lie in -SearchRadius..SearchRadius
SearchRadius == 2 * MaxStep
\* length of the boolean paths offered to applyPath / applyPathReverse
MaxPathLen == 3
\* node counts offered to generateScaleFromMOS / Scale::fromAffine
MaxNodes == 2 * MaxStep + 2

(* --------------------------- double arithmetic ------------------------- *)
Abs(x) == IF x < 0 THEN -x ELSE x
Sgn(x) == IF x > 0 THEN 1 ELSE IF x < 0 THEN -1 ELSE 0

RECURSIVE NatGcd(_, _)
NatGcd(x, y) == IF y = 0 THEN x ELSE NatGcd(y, x % y)

\* canonical form of the quotient n/d
Rat(n, d) ==
    IF d = 0 THEN <<Sgn(n), 0>>
    ELSE LET g == NatGcd(Abs(n), Abs(d))
             s == IF d < 0 THEN -1 ELSE 1
         IN  <<(s * n) \div g, (s * d) \div g>>

RI(i) == <<i, 1>>
Zero == <<0, 1>>
One == <<1, 1>>
NaN == <<0, 0>>
IsNaN(p) == p = NaN
IsFinite(p) == p[2] > 0

RNeg(p) == <<-p[1], p[2]>>
RAdd(p, q) ==
    IF IsNaN(p) \/ IsNaN(q) THEN NaN
    ELSE IF p[2] = 0 /\ q[2] = 0 THEN (IF p = q THEN p ELSE NaN)
    ELSE IF p[2] = 0 THEN p
    ELSE IF q[2] = 0 THEN q
    ELSE Rat(p[1] * q[2] + q[1] * p[2], p[2] * q[2])
RSub(p, q) == RAdd(p, RNeg(q))
RMul(p, q) == Rat(p[1] * q[1], p[2] * q[2])
RDiv(p, q) ==
    LET s == IF q[1] < 0 THEN -1 ELSE 1
    IN  Rat(s * p[1] * q[2], p[2] * Abs(q[1]))
\* IEEE comparisons: every comparison with NaN is false
RLt(p, q) ==
    /\ ~IsNaN(p) /\ ~IsNaN(q)
    /\ IF p[2] = 0 /\ q[2] = 0 THEN p[1] < q[1]
       ELSE p[1] * q[2] < q[1] * p[2]
REq(p, q) == ~IsNaN(p) /\ ~IsNaN(q) /\ p = q
RLe(p, q) == RLt(p, q) \/ REq(p, q)
RAbs(p) == <<Abs(p[1]), p[2]>>

(* ------------------------------ vectors -------------------------------- *)
\* Vector2i is <<x, y>> of integers, Vector2d is <<x, y>> of doubles
VAdd(u, v) == <<u[1] + v[1], u[2] + v[2]>>
VSub(u, v) == <<u[1] - v[1], u[2] - v[2]>>
VScale(u, k) == <<u[1] * k, u[2] * k>>
ToVector2d(v) == <<RI(v[1]), RI(v[2])>>

(* --------------------------- AffineTransform --------------------------- *)
AffineTransform(a, b, c, d, tx, ty) ==
    [a |-> a, b |-> b, c |-> c, d |-> d, tx |-> tx, ty |-> ty]
Identity == AffineTransform(One, Zero, Zero, One, Zero, Zero)

\* apply(x, y) = (a x + b y + tx, c x + d y + ty) on a Vector2d
ApplyD(A, p) ==
    << RAdd(RAdd(RMul(A.a, p[1]), RMul(A.b, p[2])), A.tx),
       RAdd(RAdd(RMul(A.c, p[1]), RMul(A.d, p[2])), A.ty) >>
\* the same on a Vector2i
Apply(A, v) == ApplyD(A, ToVector2d(v))

\* Outer * Inner applies Inner first
Compose(O, I) ==
    AffineTransform(
        RAdd(RMul(O.a, I.a), RMul(O.b, I.c)),
        RAdd(RMul(O.a, I.b), RMul(O.b, I.d)),
        RAdd(RMul(O.c, I.a), RMul(O.d, I.c)),
        RAdd(RMul(O.c, I.b), RMul(O.d, I.d)),
        RAdd(RAdd(RMul(O.a, I.tx), RMul(O.b, I.ty)), O.tx),
        RAdd(RAdd(RMul(O.c, I.tx), RMul(O.d, I.ty)), O.ty))

(* --------------------------- LinearSolver6x6 --------------------------- *)
\* Gaussian elimination with partial pivoting on the augmented rows
\* rows[i] = <<M[i][1], ..., M[i][6], b[i]>>.  Entries of M are small
\* integers here, so "no pivot exceeds epsilon" is "every candidate is 0".
\* a sequence given by its elements, built as a tuple
TupleOf(f) == f \o <<>>

PivotRow(rows, k) ==
    CHOOSE p \in k..6 :
        /\ \A i \in k..6 : RLe(RAbs(rows[i][k]), RAbs(rows[p][k]))
        /\ \A i \in k..(p - 1) : RLt(RAbs(rows[i][k]), RAbs(rows[p][k]))

SwapRows(rows, i, j) ==
    TupleOf([r \in 1..6 |-> IF r = i THEN rows[j] ELSE IF r = j THEN rows[i] ELSE rows[r]])

\* row - f * pivot, with the eliminated entry k set to zero
EliminateRow(row, pivot, k, f) ==
    TupleOf([j \in 1..7 |-> IF j = k THEN Zero ELSE RSub(row[j], RMul(f, pivot[j]))])

EliminateColumn(rows, k) ==
    TupleOf([i \in 1..6 |->
        IF i = k THEN rows[k]
        ELSE EliminateRow(rows[i], rows[k], k, RDiv(rows[i][k], rows[k][k]))])

RECURSIVE GaussJordan(_, _)
\* the step for column k once its pivot row p is known
GaussJordanStep(rows, k, p) ==
    IF rows[p][k] = Zero THEN [ok |-> FALSE, rows |-> rows]
    ELSE GaussJordan(EliminateColumn(SwapRows(rows, k, p), k), k + 1)

GaussJordan(rows, k) ==
    IF k > 6 THEN [ok |-> TRUE, rows |-> rows]
    ELSE GaussJordanStep(rows, k, PivotRow(rows, k))

Augmented(M, b) ==
    TupleOf([i \in 1..6 |-> TupleOf([j \in 1..7 |-> IF j = 7 THEN b[i] ELSE M[i][j]])])

BackSubstituted(res) ==
    IF res.ok
    THEN [ok |-> TRUE, sol |-> TupleOf([i \in 1..6 |-> RDiv(res.rows[i][7], res.rows[i][i])])]
    ELSE [ok |-> FALSE, sol |-> <<>>]

\* returns [ok |-> FALSE, ...] for the singular-system error
LinearSolver6x6_solve(M, b) == BackSubstituted(GaussJordan(Augmented(M, b), 1))

\* the affine transform read off the solution vector
AffineFromSolution(r) ==
    IF r.ok
    THEN [ok |-> TRUE,
          A |-> AffineTransform(r.sol[1], r.sol[2], r.sol[4], r.sol[5], r.sol[3], r.sol[6])]
    ELSE [ok |-> FALSE, A |-> Identity]

\* params.cpp: a1..a3 are the source points, b1..b3 their images (Vector2d)
affineFromThreeDots(a1, a2, a3, b1, b2, b3) ==
    AffineFromSolution(LinearSolver6x6_solve(
        << <<a1[1], a1[2], One, Zero, Zero, Zero>>,
           <<Zero, Zero, Zero, a1[1], a1[2], One>>,
           <<a2[1], a2[2], One, Zero, Zero, Zero>>,
           <<Zero, Zero, Zero, a2[1], a2[2], One>>,
           <<a3[1], a3[2], One, Zero, Zero, Zero>>,
           <<Zero, Zero, Zero, a3[1], a3[2], One>> >>,
        <<b1[1], b1[2], b2[1], b2[2], b3[1], b3[2]>>))

(* --------------------- IntegerAffineTransform -------------------------- *)
\* linearFromTwoDots(p1, q1, p2, q2): the integer linear map sending p1 to q1
\* and p2 to q2; fails (ok = FALSE) when the correspondence is singular, has
\* no integer solution, or the map's determinant is not +1 or -1.
linearFromTwoDots(p1, q1, p2, q2) ==
    LET det == p1[1] * p2[2] - p1[2] * p2[1]
        na == q1[1] * p2[2] - q2[1] * p1[2]
        nb == q2[1] * p1[1] - q1[1] * p2[1]
        nc == q1[2] * p2[2] - q2[2] * p1[2]
        nd == q2[2] * p1[1] - q1[2] * p2[1]
        Divides(k, x) == x = (x \div k) * k
        exact == /\ det # 0
                 /\ Divides(Abs(det), Abs(na)) /\ Divides(Abs(det), Abs(nb))
                 /\ Divides(Abs(det), Abs(nc)) /\ Divides(Abs(det), Abs(nd))
        q(x) == Sgn(det) * Sgn(x) * (Abs(x) \div Abs(det))
    IN  IF exact /\ Abs(q(na) * q(nd) - q(nb) * q(nc)) = 1
        THEN [ok |-> TRUE, T |-> [a |-> q(na), b |-> q(nb), c |-> q(nc), d |-> q(nd), tx |-> 0, ty |-> 0]]
        ELSE [ok |-> FALSE, T |-> [a |-> 1, b |-> 0, c |-> 0, d |-> 1, tx |-> 0, ty |-> 0]]

(* ------------------------- brightness path ----------------------------- *)
\* mos.cpp gcd, on the positive operands adjustParams is modelled with
RECURSIVE gcd(_, _)
gcd(a, b) == IF b = 0 THEN a ELSE gcd(b, a % b)

Reverse(s) == TupleOf([i \in 1..Len(s) |-> s[Len(s) + 1 - i]])

\* variant: the loop stops as soon as either count reaches 1
RECURSIVE calcPathPushesEither(_, _)
calcPathPushesEither(a_, b_) ==
    IF a_ > 1 /\ b_ > 1
    THEN IF a_ > b_ THEN <<FALSE>> \o calcPathPushesEither(a_ - b_, b_)
                    ELSE <<TRUE>> \o calcPathPushesEither(a_, b_ - a_)
    ELSE <<>>

\* the pushes of calcPath's loop, in push order
RECURSIVE calcPathPushes(_, _)
calcPathPushes(a_, b_) ==
    IF a_ > 1 \/ b_ > 1
    THEN IF a_ > b_ THEN <<FALSE>> \o calcPathPushes(a_ - b_, b_)
                    ELSE <<TRUE>> \o calcPathPushes(a_, b_ - a_)
    ELSE <<>>
\* variant: the pushes are returned in push order
calcPathUnreversed(a, b) == calcPathPushes(a, b)
\* calcPath
calcPath(a, b) == Reverse(calcPathPushes(a, b))

RECURSIVE applyPathFrom(_, _, _)
applyPathFrom(path, i, v) ==
    IF i > Len(path) THEN v
    ELSE applyPathFrom(path, i + 1,
            IF path[i] THEN <<v[1], v[2] + v[1]>> ELSE <<v[1] + v[2], v[2]>>)
applyPath(path, v) == applyPathFrom(path, 1, v)

RECURSIVE applyPathReverseFrom(_, _, _)
applyPathReverseFrom(reversed_path, i, v) ==
    IF i > Len(reversed_path) THEN v
    ELSE applyPathReverseFrom(reversed_path, i + 1,
            IF reversed_path[i] THEN <<v[1], v[2] - v[1]>> ELSE <<v[1] - v[2], v[2]>>)
\* variant: the copy of the path is walked without being reversed
applyPathReverseUnreversed(path, v) == applyPathReverseFrom(path, 1, v)
applyPathReverse(path, v) == applyPathReverseFrom(Reverse(path), 1, v)

(* ----------------------- lattice strip sampler ------------------------- *)
SearchBox == { v \in (-SearchRadius..SearchRadius) \X (-SearchRadius..SearchRadius) : v # <<0, 0>> }

\* total order on candidates <<v, image of v>>: x-image first, then lattice
\* norm, then coordinates
Closer(c, w) ==
    LET v == c[1]
        u == w[1]
        nv == v[1] * v[1] + v[2] * v[2]
        nu == u[1] * u[1] + u[2] * u[2]
    IN  \/ RLt(c[2][1], w[2][1])
        \/ /\ c[2][1] = w[2][1]
           /\ \/ nv < nu
              \/ nv = nu /\ (v[1] < u[1] \/ (v[1] = u[1] /\ v[2] < u[2]))

\* r: the lattice vector with the least positive x-image among those whose
\* y-image lies in (0,1); s: the same among those with y-image in (-1,0).
\* Adding r or s to a strip point then gives the next strip point in x.
findClosestWithinStrip(M) ==
    LET ahead == { c \in { <<v, Apply(M, v)>> : v \in SearchBox } : RLt(Zero, c[2][1]) }
        ups == { c \in ahead : RLt(Zero, c[2][2]) /\ RLt(c[2][2], One) }
        dns == { c \in ahead : RLt(RI(-1), c[2][2]) /\ RLt(c[2][2], Zero) }
        best(C) == CHOOSE c \in C : \A w \in C : c = w \/ Closer(c, w)
    IN  IF ups # {} /\ dns # {}
        THEN [found |-> TRUE, r |-> best(ups)[1], s |-> best(dns)[1]]
        ELSE [found |-> FALSE, r |-> <<0, 0>>, s |-> <<0, 0>>]

(* -------------------------------- Scale -------------------------------- *)
\* pitch = base * exp2(x), kept symbolically
Pitch(base, x) == <<base, x>>

Node(nat, tun, pitch, tempered) ==
    [natural_coord |-> nat, tuning_coord |-> tun, pitch |-> pitch, isTempered |-> tempered]
DefaultNode == Node(<<0, 0>>, <<Zero, Zero>>, Pitch(Zero, Zero), FALSE)

\* Scale::Scale(base_freq, N, root_node_idx)
NewScale(base_freq, N, root_node_idx) ==
    [nodes_ |-> TupleOf([i \in 1..N |-> DefaultNode]), base_freq_ |-> base_freq, root_idx_ |-> root_node_idx]

InStrip(y) == RLe(Zero, y) /\ RLt(y, One)

\* variant: tuning_coord is recomputed before natural_coord is advanced
StripStepStale(prev, A, r, s, zr, zs, sign, base_freq) ==
    LET yr == IF sign = 1 THEN RAdd(prev.tuning_coord[2], zr[2]) ELSE RSub(prev.tuning_coord[2], zr[2])
        ys == IF sign = 1 THEN RAdd(prev.tuning_coord[2], zs[2]) ELSE RSub(prev.tuning_coord[2], zs[2])
        d  == IF InStrip(yr) THEN r ELSE IF InStrip(ys) THEN s ELSE VAdd(r, s)
        nat == IF sign = 1 THEN VAdd(prev.natural_coord, d) ELSE VSub(prev.natural_coord, d)
        tun == Apply(A, prev.natural_coord)
    IN  Node(nat, tun, Pitch(base_freq, tun[1]), prev.isTempered)

\* one iteration of the forward pass (sign = 1) or backward pass (sign = -1)
StripStep(prev, A, r, s, zr, zs, sign, base_freq) ==
    LET yr == IF sign = 1 THEN RAdd(prev.tuning_coord[2], zr[2]) ELSE RSub(prev.tuning_coord[2], zr[2])
        ys == IF sign = 1 THEN RAdd(prev.tuning_coord[2], zs[2]) ELSE RSub(prev.tuning_coord[2], zs[2])
        d  == IF InStrip(yr) THEN r ELSE IF InStrip(ys) THEN s ELSE VAdd(r, s)
        nat == IF sign = 1 THEN VAdd(prev.natural_coord, d) ELSE VSub(prev.natural_coord, d)
        tun == Apply(A, nat)
    IN  Node(nat, tun, Pitch(base_freq, tun[1]), prev.isTempered)

\* the nodes written by k iterations of a pass, in the order written
RECURSIVE StripPass(_, _, _, _, _, _, _, _, _)
StripPass(prev, k, A, r, s, zr, zs, sign, base_freq) ==
    IF k <= 0 THEN <<>>
    ELSE LET nx == StripStep(prev, A, r, s, zr, zs, sign, base_freq)
         IN  <<nx>> \o StripPass(nx, k - 1, A, r, s, zr, zs, sign, base_freq)

\* the node array after the root and both passes have been written
writeNodes(self, root_node_idx, root, fwd, bwd) ==
    [self EXCEPT !.nodes_ = TupleOf(
        [i \in 1..Len(self.nodes_) |->
            IF i - 1 = root_node_idx THEN root
            ELSE IF i - 1 > root_node_idx /\ i - 1 - root_node_idx <= Len(fwd) THEN fwd[i - 1 - root_node_idx]
            ELSE IF i - 1 < root_node_idx /\ root_node_idx - (i - 1) <= Len(bwd) THEN bwd[root_node_idx - (i - 1)]
            ELSE self.nodes_[i]])]

\* the root node and the two passes, given the linear part M and the strip pair rs
stripWalk(self, A, N, root_node_idx, M, rs, root) ==
    writeNodes(self, root_node_idx, root,
        StripPass(root, N - root_node_idx - 1, A, rs.r, rs.s, Apply(M, rs.r), Apply(M, rs.s),
                  1, self.base_freq_),
        StripPass(root, root_node_idx, A, rs.r, rs.s, Apply(M, rs.r), Apply(M, rs.s),
                  -1, self.base_freq_))

\* variant: only tx is cleared
LinearPartKeepTy(A) == [A EXCEPT !.tx = Zero]

\* M = A without its translation
LinearPart(A) == [A EXCEPT !.tx = Zero, !.ty = Zero]

\* Scale::recalcWithAffine(A, N, root_node_idx), for 0 <= root_node_idx < N
\* on a scale whose node array holds N nodes (the calls modelled here)
recalcWithAffine(self, A, N, root_node_idx) ==
    stripWalk(self, A, N, root_node_idx, LinearPart(A), findClosestWithinStrip(LinearPart(A)),
              Node(<<0, 0>>, Apply(A, <<0, 0>>), Pitch(self.base_freq_, Zero), FALSE))

\* Scale::fromAffine
fromAffine(A, base_freq, N, root_node_idx) ==
    recalcWithAffine(NewScale(base_freq, N, root_node_idx), A, N, root_node_idx)

\* Scale::retuneWithAffine
retuneWithAffine(self, A) ==
    [self EXCEPT !.nodes_ = TupleOf(
        [i \in 1..Len(self.nodes_) |->
            LET node == self.nodes_[i]
                tun == Apply(A, node.natural_coord)
            IN  Node(node.natural_coord, tun, Pitch(self.base_freq_, tun[1]), FALSE)])]

(* --------------------------------- MOS --------------------------------- *)
\* MOS::updateVectors
updateVectors(m) ==
    LET v1 == <<1, 0>>
        v2 == <<0, 1>>
        v1_fr == Apply(m.impliedAffine, v1)[1]
        v2_fr == Apply(m.impliedAffine, v2)[1]
        big == RLt(v2_fr, v1_fr)
        L_vec == IF big THEN v1 ELSE v2
        s_vec == IF big THEN v2 ELSE v1
        L_fr == IF big THEN v1_fr ELSE v2_fr
        s_fr == IF big THEN v2_fr ELSE v1_fr
    IN  [m EXCEPT !.L_vec = L_vec, !.s_vec = s_vec, !.L_fr = L_fr, !.s_fr = s_fr,
                  !.nL = IF big THEN m.a ELSE m.b, !.nS = IF big THEN m.b ELSE m.a,
                  !.chroma_vec = VSub(L_vec, s_vec), !.chroma_fr = RSub(L_fr, s_fr)]

\* MOS::calcImpliedAffine
calcImpliedAffine(m) ==
    LET q == RDiv(<<1, 2>>, RI(m.n0))
    IN  affineFromThreeDots(
            <<Zero, Zero>>, ToVector2d(m.v_gen), <<RI(m.a0), RI(m.b0)>>,
            <<Zero, RMul(q, RI(2 * m.mode + 1))>>,
            <<RMul(m.generator, m.period), RMul(q, RI(2 * m.mode + 3))>>,
            <<m.period, RMul(q, RI(2 * m.mode + 1))>>)

\* the asserts of MOS::adjustParams
ValidParams(a, b, g) == a > 0 /\ b > 0 /\ RLe(Zero, g) /\ RLe(g, One)

\* MOS::adjustParams past its asserts, on the object old.  The result is
\* [mos, err]: err is the exception leaving the call, and the fields assigned
\* before the throwing statement keep their new values.
\* ... its last statement: mosTransform
setMosTransform(m3, mt) ==
    IF ~mt.ok THEN [mos |-> m3, err |-> "degenerate-transform"]
    ELSE [mos |-> [m3 EXCEPT !.mosTransform = mt.T], err |-> "none"]

\* variant: a base_scale of the right length is kept
setBaseScaleKept(m2) ==
    setMosTransform([m2 EXCEPT !.base_scale =
                         IF Len(m2.base_scale.nodes_) = m2.n + 1 THEN m2.base_scale
                         ELSE fromAffine(m2.impliedAffine, One, m2.n + 1, 0)],
                    linearFromTwoDots(<<1, 0>>, <<1, 1>>, m2.v_gen, <<m2.a0, m2.b0>>))

\* ... from base_scale on
setBaseScale(m2) ==
    setMosTransform([m2 EXCEPT !.base_scale = fromAffine(m2.impliedAffine, One, m2.n + 1, 0)],
                    linearFromTwoDots(<<1, 0>>, <<1, 1>>, m2.v_gen, <<m2.a0, m2.b0>>))

\* ... from impliedAffine on
setImpliedAffine(m1, ia) ==
    IF ~ia.ok THEN [mos |-> m1, err |-> "singular-system"]
    ELSE setBaseScale(updateVectors([m1 EXCEPT !.impliedAffine = ia.A]))

\* ... from path on
setPath(m0, path) ==
    setImpliedAffine([m0 EXCEPT !.path = path, !.depth = Len(path), !.v_gen = applyPath(path, <<1, 0>>)],
                     calcImpliedAffine([m0 EXCEPT !.path = path, !.depth = Len(path),
                                                  !.v_gen = applyPath(path, <<1, 0>>)]))

\* variant: the step counts are stored without the division by r
setParamsUnreduced(old, a, b, m, e, g, r) ==
    [old EXCEPT !.a = a, !.b = b, !.n = a + b, !.a0 = a, !.b0 = b,
                !.n0 = a + b, !.mode = m, !.repetitions = r,
                !.equave = e, !.period = RDiv(e, RI(r)), !.generator = g]

\* ... the fields assigned from the arguments, r = gcd(a, b)
setParams(old, a, b, m, e, g, r) ==
    [old EXCEPT !.a = a, !.b = b, !.n = a + b, !.a0 = a \div r, !.b0 = b \div r,
                !.n0 = a \div r + b \div r, !.mode = m, !.repetitions = r,
                !.equave = e, !.period = RDiv(e, RI(r)), !.generator = g]

adjustParams(old, a, b, m, e, g) ==
    setPath(setParams(old, a, b, m, e, g, gcd(a, b)), calcPath(a \div gcd(a, b), b \div gcd(a, b)))

\* variant: equal sub-lengths unfold the other way
RECURSIVE unfoldGOrEqual(_, _, _, _, _)
unfoldGOrEqual(i, a0, b0, a_len, b_len) ==
    IF i <= 0 THEN <<a0, b0>>
    ELSE IF RLe(b_len, a_len)
         THEN unfoldGOrEqual(i - 1, a0, b0 + a0, RSub(a_len, b_len), b_len)
         ELSE unfoldGOrEqual(i - 1, a0 + b0, b0, a_len, RSub(b_len, a_len))

\* the unfolding loop shared by MOS::adjustG and MOS::fromG: <<a0, b0>>
RECURSIVE unfoldG(_, _, _, _, _)
unfoldG(i, a0, b0, a_len, b_len) ==
    IF i <= 0 THEN <<a0, b0>>
    ELSE IF RLt(b_len, a_len)
         THEN unfoldG(i - 1, a0, b0 + a0, RSub(a_len, b_len), b_len)
         ELSE unfoldG(i - 1, a0 + b0, b0, a_len, RSub(b_len, a_len))

\* MOS::adjustG
adjustG(old, depth, m, g, e, _repetitions) ==
    LET ab == unfoldG(depth, 1, 1, g, RSub(One, g))
    IN  adjustParams(old, ab[1] * _repetitions, ab[2] * _repetitions, m, e, g)

\* MOS::_recalcOnRetuneUsingAffine
recalcOnRetuneUsingAffine(m, A) ==
    LET x0 == Apply(A, <<0, 0>>)[1]
        period == RSub(Apply(A, <<m.a0, m.b0>>)[1], x0)
    IN  updateVectors(
            [m EXCEPT !.base_scale = retuneWithAffine(m.base_scale, A),
                      !.impliedAffine = A,
                      !.equave = RSub(Apply(A, <<m.a, m.b>>)[1], x0),
                      !.period = period,
                      !.generator = RDiv(RSub(Apply(A, m.v_gen)[1], x0), period)])

\* MOS::retuneZeroPoint
retuneZeroPoint(m) == recalcOnRetuneUsingAffine(m, m.impliedAffine)

\* MOS::retuneOnePoint
retuneOnePoint(m, v, log2fr) ==
    LET shift == RSub(log2fr, Apply(m.impliedAffine, v)[1])
        A == [m.impliedAffine EXCEPT !.tx = RAdd(m.impliedAffine.tx, shift)]
    IN  recalcOnRetuneUsingAffine(m, A)

\* MOS::retuneTwoPoints
retuneTwoPoints(m, fixed, v, log2fr) ==
    LET A0 == m.impliedAffine
        fixed_log2fr == Apply(A0, fixed)[1]
        scaleBy == RDiv(RSub(log2fr, fixed_log2fr), RSub(Apply(A0, v)[1], fixed_log2fr))
        B == [Identity EXCEPT !.a = scaleBy]
        A1 == Compose(B, A0)
        shift == RSub(fixed_log2fr, Apply(A1, fixed)[1])
        A == [A1 EXCEPT !.tx = shift]
    IN  recalcOnRetuneUsingAffine(m, A)

\* MOS::retuneThreePoints: [mos, err]; the solver throws before any field is written
retuneWithSolved(m, solved) ==
    IF solved.ok THEN [mos |-> recalcOnRetuneUsingAffine(m, solved.A), err |-> "none"]
    ELSE [mos |-> m, err |-> "singular-system"]

\* variant: the solver's result is committed whether or not it succeeded
retuneThreePointsCommitFirst(m, fixed1, fixed2, v, log2fr) ==
    [retuneWithSolved(m,
        affineFromThreeDots(ToVector2d(fixed1), ToVector2d(fixed2), ToVector2d(v),
                            Apply(m.impliedAffine, fixed1), Apply(m.impliedAffine, fixed2),
                            <<log2fr, Apply(m.impliedAffine, v)[2]>>))
     EXCEPT !.mos = recalcOnRetuneUsingAffine(m,
        affineFromThreeDots(ToVector2d(fixed1), ToVector2d(fixed2), ToVector2d(v),
                            Apply(m.impliedAffine, fixed1), Apply(m.impliedAffine, fixed2),
                            <<log2fr, Apply(m.impliedAffine, v)[2]>>).A)]

retuneThreePoints(m, fixed1, fixed2, v, log2fr) ==
    retuneWithSolved(m,
        affineFromThreeDots(ToVector2d(fixed1), ToVector2d(fixed2), ToVector2d(v),
                            Apply(m.impliedAffine, fixed1), Apply(m.impliedAffine, fixed2),
                            <<log2fr, Apply(m.impliedAffine, v)[2]>>))

\* C++ integer division and remainder (truncation toward zero), y > 0
CDiv(x, y) == Sgn(x) * (Abs(x) \div y)
CMod(x, y) == x - y * CDiv(x, y)

\* int idx = (i + 128*n) % n and int octave_nr = (i + 128*n) / n - 128, for
\* the offset i of a node from the root
baseScaleIndex(m, i) == CMod(i + 128 * m.n, m.n)
octaveNr(m, i) == CDiv(i + 128 * m.n, m.n) - 128

\* base_scale.getNodes()[idx] is read without a range check; outside the
\* vector the read is undefined and is modelled as returning stray
InBaseScale(m, idx) == 0 <= idx /\ idx < Len(m.base_scale.nodes_)
StrayNodes ==
    {Node(<<0, 0>>, <<Zero, Zero>>, Pitch(Zero, Zero), FALSE),
     Node(<<0 - 1, 1>>, <<RI(0 - 1), <<1, 2>>>>, Pitch(One, One), TRUE)}

\* MOS::generateScaleFromMOS, where a read outside base_scale returns stray
generateScaleFromMOSReading(m, base_freq, n_nodes, root, stray) ==
    [nodes_ |-> TupleOf(
        [k \in 1..n_nodes |->
            LET i == k - 1 - root
                idx == baseScaleIndex(m, i)
                octave_nr == octaveNr(m, i)
                ref == IF InBaseScale(m, idx) THEN m.base_scale.nodes_[idx + 1] ELSE stray
                nat == VAdd(VScale(<<m.a, m.b>>, octave_nr), ref.natural_coord)
                x == RAdd(ref.tuning_coord[1], RMul(RI(octave_nr), m.equave))
            IN  Node(nat, <<x, Apply(m.impliedAffine, nat)[2]>>, Pitch(base_freq, x), ref.isTempered)]),
     base_freq_ |-> base_freq, root_idx_ |-> root]

\* MOS::generateScaleFromMOS, for roots with root <= 128*n (every index read
\* from base_scale is then in range)
generateScaleFromMOS(m, base_freq, n_nodes, root) ==
    generateScaleFromMOSReading(m, base_freq, n_nodes, root, Node(<<0, 0>>, <<Zero, Zero>>, Pitch(Zero, Zero), FALSE))

\* MOS::retuneScaleWithMOS(scale, base_freq): base_freq_ of the scale is not assigned
retuneScaleWithMOS(m, sc, base_freq) ==
    [sc EXCEPT !.nodes_ = TupleOf(
        [k \in 1..Len(sc.nodes_) |->
            LET i == k - 1
                idx == baseScaleIndex(m, i - sc.root_idx_)
                octave_nr == octaveNr(m, i - sc.root_idx_)
                ref == m.base_scale.nodes_[idx + 1]
                x == RAdd(ref.tuning_coord[1], RMul(RI(octave_nr), m.equave))
            IN  Node(sc.nodes_[k].natural_coord, <<x, sc.nodes_[k].tuning_coord[2]>>,
                     Pitch(base_freq, x), ref.isTempered)])]

\* log2 of a frequency ratio that is a power of two (the base frequencies used)
RECURSIVE Log2(_)
Log2(q) ==
    IF REq(q, One) \/ ~IsFinite(q) \/ ~RLt(Zero, q) THEN Zero
    ELSE IF RLe(RI(2), q) THEN RAdd(One, Log2(RDiv(q, RI(2))))
    ELSE IF RLe(q, <<1, 2>>) THEN RSub(Log2(RMul(q, RI(2))), One)
    ELSE Zero

\* the inner loop of temperToPitchSet from entry j on: the closest log2fr so far
RECURSIVE closestPitch(_, _, _, _, _)
closestPitch(pitchset, j, node_pitch_log2fr, closest_pitch_log2fr, min_dist) ==
    IF j > Len(pitchset) THEN closest_pitch_log2fr
    ELSE LET dist == RAbs(RSub(pitchset[j], node_pitch_log2fr))
         IN  IF RLt(dist, min_dist)
             THEN closestPitch(pitchset, j + 1, node_pitch_log2fr, pitchset[j], dist)
             ELSE closestPitch(pitchset, j + 1, node_pitch_log2fr, closest_pitch_log2fr, min_dist)

\* Scale::temperToPitchSet(pitchset), a pitch set given by its log2fr values:
\* pitch is replaced, tuning_coord is not
temperToPitchSet(sc, pitchset) ==
    [sc EXCEPT !.nodes_ = TupleOf(
        [k \in 1..Len(sc.nodes_) |->
            LET node == sc.nodes_[k]
                node_pitch_log2fr == RAdd(node.pitch[2], Log2(RDiv(node.pitch[1], sc.base_freq_)))
            IN  Node(node.natural_coord, node.tuning_coord,
                     Pitch(sc.base_freq_, closestPitch(pitchset, 1, node_pitch_log2fr, Zero, RI(1000000))),
                     TRUE)])]

\* MOS::mapFromMOS
mapFromMOS(m, other, v) == applyPath(m.path, applyPathReverse(other.path, v))

\* MOS::nodeInScale
nodeInScale(m, v) ==
    LET d == v[1] * m.b - v[2] * m.a + m.mode
    IN  ~(d < 0 \/ d >= m.n)

\* the multiple of n added to v.x + v.y before the integer division
EquaveBias == 256
nodeEquaveNr(m, v) == CDiv(v[1] + v[2] + EquaveBias * m.n, m.n) - EquaveBias
nodeScaleDegree(m, v) == CMod(v[1] + v[2] + EquaveBias * m.n, m.n)

\* MOS::coordToFreq at an integer lattice point
coordToFreq(m, v, base_freq) == Pitch(base_freq, Apply(m.impliedAffine, v)[1])

\* the MOS object before the constructor body has run
BlankMOS ==
    [a |-> 0, b |-> 0, n |-> 0, a0 |-> 0, b0 |-> 0, n0 |-> 0, mode |-> 0, nL |-> 0, nS |-> 0,
     repetitions |-> 0, depth |-> 0, equave |-> Zero, period |-> Zero, generator |-> Zero,
     L_vec |-> <<0, 0>>, s_vec |-> <<0, 0>>, chroma_vec |-> <<0, 0>>,
     L_fr |-> Zero, s_fr |-> Zero, chroma_fr |-> Zero,
     path |-> <<>>, impliedAffine |-> Identity,
     mosTransform |-> [a |-> 1, b |-> 0, c |-> 0, d |-> 1, tx |-> 0, ty |-> 0],
     v_gen |-> <<0, 0>>, base_scale |-> NewScale(One, 0, 0)]

(* ----------------------------- state ------------------------------------ *)
VARIABLES
    mos,        \* the MOS object (fields of class MOS)
    other,      \* a second MOS object, the argument of mapFromMOS
    scale,      \* the Scale object last returned to the caller
    err,        \* how the last call ended: "none", an exception, or "abort"
    last,       \* the last call and its arguments
    ret,        \* the value returned by the last call ("void" if none)
    arg,        \* the caller's path and vector, input of the path functions
    ndebug,     \* TRUE when the build defines NDEBUG (asserts compiled out)
    calls,      \* calls made on the objects since construction
    out         \* the caller's scalatrix_node struct, written by the C API

vars == <<mos, other, scale, err, last, ret, arg, ndebug, calls, out>>

NoScale == NewScale(One, 0, 0)
NoArg == [path |-> <<>>, v |-> <<0, 0>>]
\* the struct before any node was copied into it
NoNode == [natural_coord |-> <<-1, -1>>, tuning_coord |-> <<RI(-1), RI(-1)>>, pitch |-> Pitch(Zero, Zero)]
Alive == err # "abort"
CanCall == Alive /\ calls < MaxCalls

(* ------------------------------- C API --------------------------------- *)
\* to_c(Vector2i): the two integers are copied
to_c(v) == <<v[1], v[2]>>

\* variant: *out is cleared before the range check
scalatrix_scale_get_node_clearing(s, index, o) ==
    IF index < 0 \/ index >= Len(s.nodes_)
    THEN [ret |-> -1, out |-> [natural_coord |-> <<0, 0>>, tuning_coord |-> <<Zero, Zero>>, pitch |-> Pitch(Zero, Zero)]]
    ELSE LET n == s.nodes_[index + 1]
         IN  [ret |-> 0,
              out |-> [natural_coord |-> to_c(n.natural_coord),
                       tuning_coord |-> <<n.tuning_coord[1], n.tuning_coord[2]>>,
                       pitch |-> n.pitch]]

\* scalatrix_scale_get_node(s, index, out): the return code and *out afterwards
scalatrix_scale_get_node(s, index, o) ==
    IF index < 0 \/ index >= Len(s.nodes_)
    THEN [ret |-> -1, out |-> o]
    ELSE LET n == s.nodes_[index + 1]
         IN  [ret |-> 0,
              out |-> [natural_coord |-> to_c(n.natural_coord),
                       tuning_coord |-> <<n.tuning_coord[1], n.tuning_coord[2]>>,
                       pitch |-> n.pitch]]

(* ----------------------------- construction ---------------------------- *)
\* MOS::MOS(a, b, m, e, g): the object exists only if the constructor returned
Constructed(a, b, m, e, g) ==
    LET c == adjustParams(BlankMOS, a, b, m, e, g)
    IN  /\ c.err = "none"
        /\ mos = c.mos
        /\ last = [op |-> "MOS", a |-> a, b |-> b, m |-> m, e |-> e, g |-> g]

\* MOS::fromG(depth, m, g, e, repetitions)
fromG(depth, m, g, e, repetitions) ==
    LET c == adjustG(BlankMOS, depth, m, g, e, repetitions)
    IN  /\ c.err = "none"
        /\ mos = c.mos
        /\ last = [op |-> "fromG", depth |-> depth, m |-> m, g |-> g, e |-> e,
                   repetitions |-> repetitions]

\* the rest of the state when the caller holds a new MOS
Fresh ==
    /\ other = BlankMOS
    /\ scale = NoScale
    /\ err = "none"
    /\ ret = "void"
    /\ arg = NoArg
    /\ calls = 0
    /\ out = NoNode

(* ----------------------------- mutators -------------------------------- *)
AdjustParams(a, b, m, e, g) ==
    /\ CanCall
    /\ last' = [op |-> "adjustParams", a |-> a, b |-> b, m |-> m, e |-> e, g |-> g]
    /\ ret' = "void"
    /\ calls' = calls + 1
    /\ IF ~ValidParams(a, b, g) /\ ~ndebug
       THEN \* an assert fires: the process is terminated
            /\ err' = "abort"
            /\ UNCHANGED mos
       ELSE LET c == adjustParams(mos, a, b, m, e, g)
            IN  /\ mos' = c.mos
                /\ err' = c.err
    /\ UNCHANGED <<other, scale, arg, ndebug, out>>

AdjustG(depth, m, g, e, reps) ==
    /\ CanCall
    /\ last' = [op |-> "adjustG", depth |-> depth, m |-> m, g |-> g, e |-> e, repetitions |-> reps]
    /\ ret' = "void"
    /\ calls' = calls + 1
    /\ LET ab == unfoldG(depth, 1, 1, g, RSub(One, g))
       IN  IF ~ValidParams(ab[1] * reps, ab[2] * reps, g) /\ ~ndebug
           THEN /\ err' = "abort"
                /\ UNCHANGED mos
           ELSE LET c == adjustG(mos, depth, m, g, e, reps)
                IN  /\ mos' = c.mos
                    /\ err' = c.err
    /\ UNCHANGED <<other, scale, arg, ndebug, out>>

RetuneZeroPoint ==
    /\ CanCall
    /\ mos' = retuneZeroPoint(mos)
    /\ err' = "none"
    /\ last' = [op |-> "retuneZeroPoint"]
    /\ ret' = "void"
    /\ calls' = calls + 1
    /\ UNCHANGED <<other, scale, arg, ndebug, out>>

RetuneOnePoint(v, log2fr) ==
    /\ CanCall
    /\ mos' = retuneOnePoint(mos, v, log2fr)
    /\ err' = "none"
    /\ last' = [op |-> "retuneOnePoint", v |-> v, log2fr |-> log2fr]
    /\ ret' = "void"
    /\ calls' = calls + 1
    /\ UNCHANGED <<other, scale, arg, ndebug, out>>

RetuneTwoPoints(fixed, v, log2fr) ==
    /\ CanCall
    /\ mos' = retuneTwoPoints(mos, fixed, v, log2fr)
    /\ err' = "none"
    /\ last' = [op |-> "retuneTwoPoints", fixed |-> fixed, v |-> v, log2fr |-> log2fr]
    /\ ret' = "void"
    /\ calls' = calls + 1
    /\ UNCHANGED <<other, scale, arg, ndebug, out>>

RetuneThreePoints(fixed1, fixed2, v, log2fr) ==
    /\ CanCall
    /\ LET c == retuneThreePoints(mos, fixed1, fixed2, v, log2fr)
       IN  /\ mos' = c.mos
           /\ err' = c.err
    /\ last' = [op |-> "retuneThreePoints", fixed1 |-> fixed1, fixed2 |-> fixed2, v |-> v,
                log2fr |-> log2fr]
    /\ ret' = "void"
    /\ calls' = calls + 1
    /\ UNCHANGED <<other, scale, arg, ndebug, out>>

(* ------------------------------ queries -------------------------------- *)
NodeInScale(v) ==
    /\ CanCall
    /\ ret' = nodeInScale(mos, v)
    /\ err' = "none"
    /\ last' = [op |-> "nodeInScale", v |-> v]
    /\ calls' = calls + 1
    /\ UNCHANGED <<mos, other, scale, arg, ndebug, out>>

GenerateScaleFromMOS(base_freq, n_nodes, root) ==
    /\ CanCall
    /\ \E stray \in StrayNodes :
          scale' = generateScaleFromMOSReading(mos, base_freq, n_nodes, root, stray)
    /\ IF \A k \in 1..n_nodes : InBaseScale(mos, baseScaleIndex(mos, k - 1 - root))
       THEN err' = "none"
       ELSE err' \in {"none", "abort"}
    /\ last' = [op |-> "generateScaleFromMOS", base_freq |-> base_freq, n_nodes |-> n_nodes,
                root |-> root]
    /\ ret' = "void"
    /\ calls' = calls + 1
    /\ UNCHANGED <<mos, other, arg, ndebug, out>>

\* Scale::fromAffine called with the MOS's implied transform
ScaleFromAffine(base_freq, N, root_node_idx) ==
    /\ CanCall
    /\ scale' = fromAffine(mos.impliedAffine, base_freq, N, root_node_idx)
    /\ err' = "none"
    /\ last' = [op |-> "fromAffine", A |-> mos.impliedAffine, base_freq |-> base_freq, N |-> N,
                root |-> root_node_idx]
    /\ ret' = "void"
    /\ calls' = calls + 1
    /\ UNCHANGED <<mos, other, arg, ndebug, out>>

\* scale.recalcWithAffine(A, N, root) on the scale the caller holds, with the
\* MOS's implied transform. The node array is neither resized nor is root_idx_
\* assigned; a write past the end of the array is undefined behaviour: the
\* process may be terminated, or may go on with the array as it is
ScaleRecalc(N, root_node_idx) ==
    /\ CanCall
    /\ 0 <= root_node_idx /\ root_node_idx < N
    /\ scale' = recalcWithAffine(scale, mos.impliedAffine, N, root_node_idx)
    /\ IF N > Len(scale.nodes_) THEN err' \in {"none", "abort"} ELSE err' = "none"
    /\ last' = [op |-> "recalcWithAffine", N |-> N, root |-> root_node_idx]
    /\ ret' = "void"
    /\ calls' = calls + 1
    /\ UNCHANGED <<mos, other, arg, ndebug, out>>

\* mos.base_scale.temperToPitchSet(pitchset)
TemperBaseScale(pitchset) ==
    /\ CanCall
    /\ mos' = [mos EXCEPT !.base_scale = temperToPitchSet(mos.base_scale, pitchset)]
    /\ err' = "none"
    /\ last' = [op |-> "temperToPitchSet", pitchset |-> pitchset]
    /\ ret' = "void"
    /\ calls' = calls + 1
    /\ UNCHANGED <<other, scale, arg, ndebug, out>>

\* mos.retuneScaleWithMOS(scale, base_freq)
RetuneScaleWithMOS(base_freq) ==
    /\ CanCall
    /\ scale' = retuneScaleWithMOS(mos, scale, base_freq)
    /\ err' = "none"
    /\ last' = [op |-> "retuneScaleWithMOS", base_freq |-> base_freq]
    /\ ret' = "void"
    /\ calls' = calls + 1
    /\ UNCHANGED <<mos, other, arg, ndebug, out>>

\* scale.temperToPitchSet(pitchset)
TemperToPitchSet(pitchset) ==
    /\ CanCall
    /\ scale' = temperToPitchSet(scale, pitchset)
    /\ err' = "none"
    /\ last' = [op |-> "temperToPitchSet", pitchset |-> pitchset]
    /\ ret' = "void"
    /\ calls' = calls + 1
    /\ UNCHANGED <<mos, other, arg, ndebug, out>>

NodeEquaveNr(v) ==
    /\ CanCall
    /\ ret' = nodeEquaveNr(mos, v)
    /\ err' = "none"
    /\ last' = [op |-> "nodeEquaveNr", v |-> v]
    /\ calls' = calls + 1
    /\ UNCHANGED <<mos, other, scale, arg, ndebug, out>>

NodeScaleDegree(v) ==
    /\ CanCall
    /\ ret' = nodeScaleDegree(mos, v)
    /\ err' = "none"
    /\ last' = [op |-> "nodeScaleDegree", v |-> v]
    /\ calls' = calls + 1
    /\ UNCHANGED <<mos, other, scale, arg, ndebug, out>>

ScaleGetNode(index) ==
    /\ CanCall
    /\ LET c == scalatrix_scale_get_node(scale, index, out)
       IN  /\ ret' = c.ret
           /\ out' = c.out
    /\ err' = "none"
    /\ last' = [op |-> "scalatrix_scale_get_node", index |-> index]
    /\ calls' = calls + 1
    /\ UNCHANGED <<mos, other, scale, arg, ndebug>>

(* --------------------------- path functions ---------------------------- *)
\* the vector the caller passes on: its own, or the one just returned
Current == IF calls = 0 THEN arg.v ELSE ret

ApplyPath ==
    /\ CanCall
    /\ ret' = applyPath(arg.path, Current)
    /\ err' = "none"
    /\ last' = [op |-> "applyPath", v |-> Current]
    /\ calls' = calls + 1
    /\ UNCHANGED <<mos, other, scale, arg, ndebug, out>>

ApplyPathReverse ==
    /\ CanCall
    /\ ret' = applyPathReverse(arg.path, Current)
    /\ err' = "none"
    /\ last' = [op |-> "applyPathReverse", v |-> Current]
    /\ calls' = calls + 1
    /\ UNCHANGED <<mos, other, scale, arg, ndebug, out>>

\* mos.mapFromMOS(other, v)
MapFromMOS ==
    /\ CanCall
    /\ ret' = mapFromMOS(mos, other, Current)
    /\ err' = "none"
    /\ last' = [op |-> "mapFromMOS", self |-> "mos", v |-> Current]
    /\ calls' = calls + 1
    /\ UNCHANGED <<mos, other, scale, arg, ndebug, out>>

\* other.mapFromMOS(mos, v)
MapFromMOSBack ==
    /\ CanCall
    /\ ret' = mapFromMOS(other, mos, Current)
    /\ err' = "none"
    /\ last' = [op |-> "mapFromMOS", self |-> "other", v |-> Current]
    /\ calls' = calls + 1
    /\ UNCHANGED <<mos, other, scale, arg, ndebug, out>>

(* ------------------------------ inputs --------------------------------- *)
StepCounts == 1..MaxStep
ModesOf(a, b) == 0..((a + b) \div gcd(a, b) - 1)
\* unfoldings offered to fromG / adjustG: those whose step counts stay within MaxStep
Unfoldable(depth, g) ==
    LET ab == unfoldG(depth, 1, 1, g, RSub(One, g))
    IN  ab[1] <= MaxStep /\ ab[2] <= MaxStep

(* ----------------- specification: the life of a MOS object -------------- *)
\* a MOS is constructed, then adjusted and retuned MaxCalls times
LifeGenerators == {<<2, 5>>, <<3, 5>>}
LifePairs == {<<<<0, 0>>, <<1, 0>>>>, <<<<1, 1>>, <<1, 1>>>>}
\* fixed1, fixed2, v and the target log2fr of v
LifeTriples == {<<<<0, 0>>, <<1, 0>>, <<0, 1>>, <<-3, 20>>>>, <<<<0, 0>>, <<1, 1>>, <<2, 2>>, <<1, 2>>>>}

Init ==
    /\ \/ \E a \in StepCounts, b \in StepCounts, m \in {0, 1} : Constructed(a, b, m, One, <<3, 5>>)
       \/ \E depth \in 0..MaxDepth, g \in LifeGenerators, reps \in 1..MaxReps :
            Unfoldable(depth, g) /\ fromG(depth, 0, g, One, reps)
    /\ Fresh
    /\ ndebug = FALSE

LifeAdjustParams == AdjustParams(2, 2, 1, RI(2), <<1, 2>>)
LifeAdjustG == AdjustG(1, 0, <<3, 5>>, One, MaxReps)
LifeRetuneOnePoint == \E v \in {<<0, 0>>, <<1, 0>>} : RetuneOnePoint(v, <<1, 2>>)
LifeRetuneTwoPoints == \E p \in LifePairs : RetuneTwoPoints(p[1], p[2], One)
LifeRetuneThreePoints == \E t \in LifeTriples : RetuneThreePoints(t[1], t[2], t[3], t[4])

Next ==
    \/ LifeAdjustParams
    \/ LifeAdjustG
    \/ RetuneZeroPoint
    \/ LifeRetuneOnePoint
    \/ LifeRetuneTwoPoints
    \/ LifeRetuneThreePoints

Spec == Init /\ [][Next]_vars

(* -------------- specification: adjusting an existing MOS --------------- *)
\* a MOS is constructed in a debug or a release build, adjustParams is called
\* on it with valid parameters, and adjustParams with invalid parameters and
\* adjustG are called on it at any time
AdjustGenerators == {Zero, <<1, 2>>, One}
\* <<a, b, generator>> rejected by the asserts of adjustParams
InvalidParams == {<<0, 2, <<1, 2>>>>, <<2, 0, <<1, 2>>>>, <<2, 3, <<3, 2>>>>, <<2, 3, <<-1, 2>>>>}

InitAdjust ==
    /\ Constructed(1, 2, 0, One, <<3, 5>>)
    /\ Fresh
    /\ ndebug \in BOOLEAN

\* the valid adjustments are made on the object as constructed
AdjustValid ==
    /\ calls = 0
    /\ \E a \in StepCounts, b \in StepCounts, g \in AdjustGenerators :
            \E m \in {0, (a + b) \div gcd(a, b) - 1} : AdjustParams(a, b, m, RI(2), g)
AdjustInvalid == \E p \in InvalidParams : AdjustParams(p[1], p[2], 0, One, p[3])
AdjustByG == \E depth \in 1..MaxDepth : AdjustG(depth, 0, <<2, 5>>, One, MaxReps)

NextAdjust ==
    \/ AdjustValid
    \/ AdjustInvalid
    \/ AdjustByG

SpecAdjust == InitAdjust /\ [][NextAdjust]_vars

(* ------------- specification: scales read off a MOS ------------------- *)
\* a MOS is constructed, possibly adjusted or retuned, and then queried:
\* nodeInScale, generateScaleFromMOS, Scale::fromAffine of its transform
QueryPoints == (-1..1) \X (-1..1)
ScaleRoots == {0, MaxStep}

InitScale ==
    /\ \/ \E m \in {0, 2} : Constructed(1, 2, m, One, <<3, 5>>)
       \/ Constructed(2, 3, 1, One, <<3, 5>>)
       \/ \E m \in {0, 1} : fromG(1, m, <<3, 5>>, One, MaxReps)
    /\ Fresh
    /\ ndebug = TRUE

ScaleAdjust == \E g \in AdjustGenerators : AdjustParams(3, 2, 1, One, g)
ScaleRetune ==
    \/ \E v \in {<<0, 0>>, <<1, 0>>}, f \in {Zero, <<-1, 2>>} : RetuneTwoPoints(<<0, 0>>, v, f)
    \/ RetuneOnePoint(<<1, 0>>, Zero)
ScaleQuery == \E v \in QueryPoints : NodeInScale(v)
ScaleGenerate == \E root \in ScaleRoots : GenerateScaleFromMOS(RI(2), MaxNodes, root)
ScaleSlice == \E root \in ScaleRoots : ScaleFromAffine(RI(2), MaxNodes, root)

NextScale ==
    \/ ScaleAdjust
    \/ ScaleRetune
    \/ ScaleQuery
    \/ ScaleGenerate
    \/ ScaleSlice

SpecScale == InitScale /\ [][NextScale]_vars

(* ------------- specification: a scale regenerated in place ----------- *)
\* the caller holds a MOS and a Scale sliced from its transform, and
\* regenerates the scale in place with a new length and root
RegenCounts == {1, MaxStep, MaxStep + 2}

InitRegen ==
    /\ \/ \E m \in {0, 2} : Constructed(1, 2, m, One, <<3, 5>>)
       \/ Constructed(2, 3, 1, One, <<3, 5>>)
    /\ \E N \in RegenCounts, root \in 0..1 :
          root < N /\ scale = fromAffine(mos.impliedAffine, RI(2), N, root)
    /\ other = BlankMOS
    /\ err = "none"
    /\ ret = "void"
    /\ arg = NoArg
    /\ calls = 0
    /\ out = NoNode
    /\ ndebug = TRUE

\* pitch sets as their log2fr values: thirds of an octave, and the empty set
RegenPitchSets == {<<>>, <<Zero, <<1, 3>>, <<2, 3>>, One>>}

NextRegen ==
    \/ \E N \in RegenCounts, root \in 0..2 : ScaleRecalc(N, root)
    \/ \E base_freq \in {RI(2), RI(4)} : RetuneScaleWithMOS(base_freq)
    \/ \E pitchset \in RegenPitchSets : TemperToPitchSet(pitchset)

SpecRegen == InitRegen /\ [][NextRegen]_vars

(* ------------- specification: a used MOS adjusted again -------------- *)
\* a MOS is retuned, has its base_scale tempered or is adjusted, and is then
\* adjusted with adjustParams or adjustG
InitRefresh ==
    /\ \/ Constructed(1, 2, 0, One, <<3, 5>>)
       \/ Constructed(2, 3, 1, One, <<3, 5>>)
       \/ fromG(1, 1, <<3, 5>>, One, MaxReps)
    /\ Fresh
    /\ ndebug = TRUE

NextRefresh ==
    \/ RetuneOnePoint(<<1, 0>>, <<1, 2>>)
    \/ RetuneTwoPoints(<<0, 0>>, <<1, 0>>, One)
    \/ RetuneThreePoints(<<0, 0>>, <<1, 0>>, <<0, 1>>, <<1, 2>>)
    \/ TemperBaseScale(<<Zero, <<1, 3>>, <<2, 3>>, One>>)
    \/ \E ab \in {<<1, 2>>, <<2, 3>>, <<2, 2>>}, m \in {0, 1} :
          AdjustParams(ab[1], ab[2], m, RI(2), <<3, 5>>)
    \/ \E depth \in 1..MaxDepth : AdjustG(depth, 1, <<3, 5>>, One, MaxReps)

SpecRefresh == InitRefresh /\ [][NextRefresh]_vars

(* ------------- specification: one step pattern in all its modes ------ *)
\* a MOS is given a step pattern and a generator, and is then adjusted again
\* to another mode of the same pattern
ModeGenerators == {Zero, <<2, 5>>, <<3, 5>>}

InitModes ==
    /\ Constructed(1, 2, 0, One, <<3, 5>>)
    /\ Fresh
    /\ ndebug = TRUE

ModesFirst ==
    /\ calls = 0
    /\ \E a \in StepCounts, b \in StepCounts, g \in ModeGenerators :
          \E m \in ModesOf(a, b) : AdjustParams(a, b, m, One, g)

ModesAgain ==
    /\ calls = 1
    /\ \E m \in ModesOf(mos.a, mos.b) : AdjustParams(mos.a, mos.b, m, mos.equave, mos.generator)

NextModes == ModesFirst \/ ModesAgain

SpecModes == InitModes /\ [][NextModes]_vars

(* ------------- specification: a MOS unfolded from a generator --------- *)
\* MOS::fromG builds a MOS at every depth, generator and repetition count,
\* and adjustG rebuilds the ones of depth 1 once
UnfoldGenerators == {Zero, <<1, 4>>, <<1, 3>>, <<2, 5>>, <<1, 2>>, <<3, 5>>, <<2, 3>>, <<3, 4>>, One}

InitUnfold ==
    /\ \E depth \in 0..MaxDepth, g \in UnfoldGenerators, reps \in 1..MaxReps :
          fromG(depth, 0, g, One, reps)
    /\ Fresh
    /\ ndebug = TRUE

NextUnfold ==
    /\ calls = 0
    /\ mos.depth = 1 /\ mos.repetitions = 1
    /\ \E depth \in 0..MaxDepth, m \in {0, 1}, g \in UnfoldGenerators, reps \in 1..MaxReps :
          AdjustG(depth, m, g, One, reps)

SpecUnfold == InitUnfold /\ [][NextUnfold]_vars

(* ------------- specification: degree and equave of lattice points ---- *)
\* a MOS is constructed and asked for the scale degree and the equave number
\* of lattice points near the origin and far below it
FarBelow == {0 - (EquaveBias * n + k) : n \in {MaxStep, MaxStep + 2}, k \in 0..2}
DegreePoints == ((0 - 2)..2 \cup FarBelow) \X ((0 - 1)..1)

InitDegree ==
    /\ \/ Constructed(1, 2, 0, One, <<3, 5>>)
       \/ Constructed(2, 3, 1, One, <<3, 5>>)
       \/ fromG(1, 1, <<3, 5>>, One, MaxReps)
    /\ Fresh
    /\ ndebug = TRUE

NextDegree ==
    \/ \E v \in DegreePoints : NodeEquaveNr(v)
    \/ \E v \in DegreePoints : NodeScaleDegree(v)

SpecDegree == InitDegree /\ [][NextDegree]_vars

(* ------------- specification: nodes read through the C API ----------- *)
\* the caller holds a generated scale and one scalatrix_node struct, and reads
\* nodes into the struct by index, in range and out of range
NodeCounts == {0, 1, MaxStep + 1}
NodeIndices == (0 - 2)..(MaxStep + 2)

InitNode ==
    /\ \/ \E m \in {0, 2} : Constructed(1, 2, m, One, <<3, 5>>)
       \/ Constructed(2, 3, 1, One, <<3, 5>>)
    /\ \E N \in NodeCounts : scale = generateScaleFromMOS(mos, RI(2), N, 0)
    /\ other = BlankMOS
    /\ err = "none"
    /\ ret = "void"
    /\ arg = NoArg
    /\ calls = 0
    /\ out = NoNode
    /\ ndebug = TRUE

NextNode ==
    \/ \E index \in NodeIndices : ScaleGetNode(index)
    \* roots 0 and 1, and roots at and beyond 128*n
    \/ \E n_nodes \in NodeCounts,
          root \in {0, 1} \cup {128 * n + k : n \in {MaxStep, MaxStep + 2}, k \in 0..2} :
          GenerateScaleFromMOS(RI(2), n_nodes, root)

SpecNode == InitNode /\ [][NextNode]_vars

(* ------------- specification: folding along brightness paths ---------- *)
\* the caller holds two MOS objects, a boolean path and a lattice vector, and
\* passes the vector through applyPath, applyPathReverse and mapFromMOS
BoolPaths == UNION { [1..k -> BOOLEAN] : k \in 0..MaxPathLen }
PathVectors == (-1..1) \X (-1..1)
PathShapes == {<<1, 2>>, <<2, 3>>, <<3, 2>>}

InitPath ==
    /\ \E p \in PathShapes : Constructed(p[1], p[2], 0, One, <<3, 5>>)
    /\ \E p \in PathShapes : other = adjustParams(BlankMOS, p[1], p[2], 0, One, <<3, 5>>).mos
    /\ scale = NoScale
    /\ err = "none"
    /\ ret = "void"
    /\ calls = 0
    /\ out = NoNode
    /\ ndebug = TRUE
    /\ \E path \in BoolPaths, v \in PathVectors : arg = [path |-> TupleOf(path), v |-> v]

NextPath ==
    \/ ApplyPath
    \/ ApplyPathReverse
    \/ MapFromMOS
    \/ MapFromMOSBack

SpecPath == InitPath /\ [][NextPath]_vars

(* ------------------------------- claims -------------------------------- *)
\* the last call was MOS::MOS or MOS::adjustParams and ran to the statement
\* that assigns base_scale (it returned, or threw at mosTransform)
AdjustedByParams ==
    /\ last.op \in {"MOS", "adjustParams"}
    /\ err \in {"none", "degenerate-transform"}
AdjustedByG ==
    /\ last.op \in {"fromG", "adjustG"}
    /\ err \in {"none", "degenerate-transform"}

\* the strip 0 <= y < 1, as the claims state it
InUnitStrip(y) == RLe(Zero, y) /\ RLt(y, One)

\* the greatest common divisor, as a specification
Divides(d, x) == x % d = 0
GreatestCommonDivisor(x, y) ==
    CHOOSE d \in 1..(x + y) :
        /\ Divides(d, x) /\ Divides(d, y)
        /\ \A e \in 1..(x + y) : (Divides(e, x) /\ Divides(e, y)) => e <= d

\* what the spec calls valid parameters, read off the fields just assigned
ValidFields ==
    /\ mos.a > 0 /\ mos.b > 0
    /\ 0 <= mos.mode /\ mos.mode < mos.n0
    /\ RLt(Zero, mos.equave)
    /\ RLe(Zero, mos.generator) /\ RLe(mos.generator, One)

BaseScaleX(i) == mos.base_scale.nodes_[i].tuning_coord[1]

C5_DerivedIntegers ==
    (last.op \in {"MOS", "adjustParams"} /\ err # "abort" /\ last.a > 0 /\ last.b > 0) =>
        /\ mos.a = last.a /\ mos.b = last.b
        /\ mos.n = last.a + last.b
        /\ mos.repetitions = GreatestCommonDivisor(last.a, last.b)
        /\ mos.a = mos.a0 * mos.repetitions
        /\ mos.b = mos.b0 * mos.repetitions
        /\ mos.n0 = mos.a0 + mos.b0
        /\ mos.a0 > 0 /\ mos.b0 > 0
        /\ GreatestCommonDivisor(mos.a0, mos.b0) = 1
        /\ mos.repetitions * mos.n0 = mos.n
C5_Witness ==
    /\ last.op = "adjustParams" /\ err # "abort"
    /\ last.a = 2 /\ last.b = 2
    /\ mos.repetitions = 2 /\ mos.a0 = 1 /\ mos.b0 = 1 /\ mos.n0 = 2 /\ mos.n = 4

\* C9: adjustParams called with a <= 0, b <= 0 or a generator outside [0,1]
\* is rejected: the call fails and every field of the MOS is as before it.
C9_InvalidParamsRejected ==
    [][(last'.op = "adjustParams" /\ ~ValidParams(last'.a, last'.b, last'.g)) =>
            (err' \in {"abort", "invalid-parameter"} /\ mos' = mos)]_vars

\* C1: for a MOS built with a > 0, b > 0, 0 <= mode < n0 (gcd(a, b) > 1
\* included), nodeInScale(v) is true exactly when the implied transform maps
\* v to a point with 0 <= y < 1.
C1_NodeInScaleIsStripMembership ==
    (last.op = "nodeInScale" /\ ValidFields) =>
        (ret <=> InUnitStrip(Apply(mos.impliedAffine, last.v)[2]))

\* C3: every node written by Scale::recalcWithAffine, for a transform whose
\* origin image has 0 <= y < 1, has tuning_coord.y in [0,1).
C3_NodesInStrip ==
    (last.op = "fromAffine" /\ InUnitStrip(Apply(last.A, <<0, 0>>)[2])) =>
        \A i \in 1..Len(scale.nodes_) : InUnitStrip(scale.nodes_[i].tuning_coord[2])
C3_Witness ==
    /\ last.op = "fromAffine" /\ last.root = MaxStep
    /\ InUnitStrip(Apply(last.A, <<0, 0>>)[2])
    /\ Len(scale.nodes_) = MaxNodes
    /\ scale.nodes_[1].natural_coord # <<0, 0>>
    /\ scale.nodes_[MaxNodes].natural_coord # <<0, 0>>
    /\ InUnitStrip(scale.nodes_[1].tuning_coord[2])

\* C4: a scale returned by generateScaleFromMOS in any reachable MOS state is
\* periodic: for 0 <= i and i + n < n_nodes, natural_coord[i+n] =
\* natural_coord[i] + (a, b) and tuning_coord.x[i+n] - tuning_coord.x[i] = equave.
C4_Periodicity ==
    last.op = "generateScaleFromMOS" =>
        \A i \in 1..(Len(scale.nodes_) - mos.n) :
            /\ scale.nodes_[i + mos.n].natural_coord =
                    VAdd(scale.nodes_[i].natural_coord, <<mos.a, mos.b>>)
            /\ REq(RSub(scale.nodes_[i + mos.n].tuning_coord[1], scale.nodes_[i].tuning_coord[1]),
                   mos.equave)

\* lattice points on which a transform's action is compared
ProbePoints == (-1..1) \X (-1..1)
XImage(m, v) == Apply(m.impliedAffine, v)[1]
NaturalCoords(m) == [i \in 1..Len(m.base_scale.nodes_) |-> m.base_scale.nodes_[i].natural_coord]

\* C7: after retuneOnePoint(v, f) in any reachable MOS state the implied
\* transform maps v to x = f, the change is a pure translation (a, b, c, d, ty
\* unchanged, every lattice point's x-image moved by the same shift), and
\* equave, period, generator and every base_scale natural_coord are unchanged.
C7_RetuneOnePointTranslates ==
    [][last'.op = "retuneOnePoint" =>
        /\ REq(XImage(mos', last'.v), last'.log2fr)
        /\ coordToFreq(mos', last'.v, One) = Pitch(One, last'.log2fr)
        /\ mos'.impliedAffine = [mos.impliedAffine EXCEPT !.tx = mos'.impliedAffine.tx]
        /\ \A w \in ProbePoints :
                REq(RSub(XImage(mos', w), XImage(mos, w)),
                    RSub(XImage(mos', <<0, 0>>), XImage(mos, <<0, 0>>)))
        /\ mos'.equave = mos.equave
        /\ mos'.period = mos.period
        /\ mos'.generator = mos.generator
        /\ NaturalCoords(mos') = NaturalCoords(mos)]_vars

\* C8: after retuneTwoPoints(fixed, v, f) in any reachable MOS state where v
\* and fixed had different x-images, the x-image of fixed is what it was
\* before the call and the x-image of v is f.
DifferentX(m, u, v) == RLt(XImage(m, u), XImage(m, v)) \/ RLt(XImage(m, v), XImage(m, u))
C8_RetuneTwoPointsKeepsFixed ==
    [][(last'.op = "retuneTwoPoints" /\ DifferentX(mos, last'.fixed, last'.v)) =>
        /\ REq(XImage(mos', last'.fixed), XImage(mos, last'.fixed))
        /\ REq(XImage(mos', last'.v), last'.log2fr)]_vars

\* C10: retuneThreePoints(fixed1, fixed2, v, f) with fixed1, fixed2, v collinear
\* (two of them equal included) ends with a singular-system error and leaves
\* every field of the MOS and every base_scale node unchanged.
Collinear(p, q, r) == (q[1] - p[1]) * (r[2] - p[2]) - (q[2] - p[2]) * (r[1] - p[1]) = 0
C10_CollinearRetuneRejected ==
    [][(last'.op = "retuneThreePoints" /\ Collinear(last'.fixed1, last'.fixed2, last'.v)) =>
        (err' \in {"singular-system", "degenerate-transform"} /\ mos' = mos)]_vars
C10_Witness ==
    /\ last.op = "retuneThreePoints"
    /\ Collinear(last.fixed1, last.fixed2, last.v)
    /\ last.fixed1 # last.fixed2
    /\ err = "singular-system"
    /\ calls = MaxCalls

\* C6: path folding is invertible: applyPathReverse(path, applyPath(path, v)) = v
\* and applyPath(path, applyPathReverse(path, v)) = v for every boolean path and
\* integer vector v; hence A.mapFromMOS(B, B.mapFromMOS(A, v)) = v for any two
\* MOS objects and A.mapFromMOS(A, v) = v.
C6_PathFoldRoundTrip ==
    [][/\ (last.op = "applyPath" /\ last'.op = "applyPathReverse") => ret' = last.v
       /\ (last.op = "applyPathReverse" /\ last'.op = "applyPath") => ret' = last.v
       /\ (/\ last.op = "mapFromMOS" /\ last'.op = "mapFromMOS"
           /\ last.self # last'.self) => ret' = last.v
       /\ (last'.op = "mapFromMOS" /\ mos = other) => ret' = last'.v]_vars
C6_Witness ==
    /\ calls = 2 /\ last.op = "applyPathReverse"
    /\ Len(arg.path) = MaxPathLen /\ arg.path[1] # arg.path[2]
    /\ last.v = applyPath(arg.path, arg.v) /\ last.v # arg.v
    /\ ret = arg.v

\* C11: retuneTwoPoints(fixed, v, f) called when v and fixed have the same
\* x-image (v = fixed, for one), whose rescale factor is a division by zero,
\* changes no field of the MOS and no node of base_scale.
C11_UnsatisfiableRetuneRejected ==
    [][(/\ last'.op = "retuneTwoPoints"
        /\ REq(XImage(mos, last'.fixed), XImage(mos, last'.v))) => mos' = mos]_vars

\* C12: scalatrix_scale_get_node returns 0 and copies natural_coord,
\* tuning_coord and pitch of node[index] into *out when 0 <= index < node
\* count; for every other index it returns -1 and leaves *out as it was.
C12_GetNodeCopiesOrRejects ==
    [][last'.op = "scalatrix_scale_get_node" =>
          IF 0 <= last'.index /\ last'.index < Len(scale.nodes_)
          THEN /\ ret' = 0
               /\ out'.natural_coord = scale.nodes_[last'.index + 1].natural_coord
               /\ out'.tuning_coord = scale.nodes_[last'.index + 1].tuning_coord
               /\ out'.pitch = scale.nodes_[last'.index + 1].pitch
          ELSE /\ ret' = 0 - 1
               /\ out' = out]_vars

\* an out-of-range read after a node was copied: the copy is still in *out
C12_Witness ==
    /\ last.op = "scalatrix_scale_get_node"
    /\ last.index >= Len(scale.nodes_)
    /\ ret = 0 - 1
    /\ Len(scale.nodes_) > 1
    /\ out = [natural_coord |-> scale.nodes_[2].natural_coord,
              tuning_coord |-> scale.nodes_[2].tuning_coord,
              pitch |-> scale.nodes_[2].pitch]
    /\ out # NoNode

\* C13: for every lattice vector v, however negative v.x + v.y, and every
\* MOS: 0 <= nodeScaleDegree(v) < n, nodeEquaveNr(v) = floor((v.x+v.y)/n)
\* and v.x + v.y = n*nodeEquaveNr(v) + nodeScaleDegree(v).
C13_DegreeAndEquave ==
    last.op \in {"nodeScaleDegree", "nodeEquaveNr"} =>
        LET sum == last.v[1] + last.v[2]
            degree == IF last.op = "nodeScaleDegree" THEN ret ELSE nodeScaleDegree(mos, last.v)
            equave == IF last.op = "nodeEquaveNr" THEN ret ELSE nodeEquaveNr(mos, last.v)
        IN  /\ 0 <= degree /\ degree < mos.n
            /\ equave = sum \div mos.n
            /\ sum = mos.n * equave + degree
\* C14: fromG(depth, mode, g, equave, repetitions), and adjustG which runs
\* the same unfolding on an existing MOS, give a MOS whose path has exactly
\* depth entries (and field depth = depth), whose repetitions field is the
\* repetitions argument, and whose (a0, b0) is the coprime pair unfolded from
\* (1, 1) in depth steps, with a = a0*repetitions and b = b0*repetitions.
C14_FromGShape ==
    last.op \in {"fromG", "adjustG"} =>
        LET ab == unfoldG(last.depth, 1, 1, last.g, RSub(One, last.g))
        IN  /\ Len(mos.path) = last.depth
            /\ mos.depth = last.depth
            /\ mos.repetitions = last.repetitions
            /\ <<mos.a0, mos.b0>> = ab
            /\ GreatestCommonDivisor(mos.a0, mos.b0) = 1
            /\ mos.a = mos.a0 * last.repetitions
            /\ mos.b = mos.b0 * last.repetitions

\* a MOS unfolded MaxDepth times and repeated MaxReps times
C14_Witness ==
    /\ last.op = "fromG"
    /\ last.depth = MaxDepth
    /\ last.repetitions = MaxReps
    /\ Len(mos.path) = MaxDepth
    /\ mos.a = MaxReps * mos.a0
    /\ mos.a0 > 1
\* the root node of the scale the caller holds
RootNode == scale.nodes_[scale.root_idx_ + 1]
\* A maps the origin to x = 0 and 0 <= y < 1
Normalized(A) == REq(Apply(A, <<0, 0>>)[1], Zero) /\ InUnitStrip(Apply(A, <<0, 0>>)[2])

\* C15: Scale::fromAffine given a transform that is not normalized rejects
\* it or renormalizes it: it never returns a scale whose root node has
\* tuning_coord.x # 0 or tuning_coord.y outside [0, 1).
C15_UnnormalizedTransformHandled ==
    last.op = "fromAffine" /\ ~Normalized(last.A) =>
        \/ err # "none"
        \/ /\ REq(RootNode.tuning_coord[1], Zero)
           /\ InUnitStrip(RootNode.tuning_coord[2])
BaseScaleNat(i) == mos.base_scale.nodes_[i].natural_coord

\* C16: after adjustParams with valid parameters base_scale is a staircase
\* of exactly n+1 nodes rooted at index 0: node 0 is at (0,0), consecutive
\* nodes differ by exactly (1,0) or (0,1), node n is at (a,b) with
\* tuning_coord.x = equave, and nodes 0..n-1 have tuning_coord.x in
\* [0, equave).
C16_BaseScaleStaircase ==
    (AdjustedByParams /\ ValidFields) =>
        /\ Len(mos.base_scale.nodes_) = mos.n + 1
        /\ mos.base_scale.root_idx_ = 0
        /\ BaseScaleNat(1) = <<0, 0>>
        /\ \A i \in 1..mos.n :
              VSub(BaseScaleNat(i + 1), BaseScaleNat(i)) \in {<<1, 0>>, <<0, 1>>}
        /\ BaseScaleNat(mos.n + 1) = <<mos.a, mos.b>>
        /\ REq(BaseScaleX(mos.n + 1), mos.equave)
        /\ \A i \in 1..mos.n : RLe(Zero, BaseScaleX(i)) /\ RLt(BaseScaleX(i), mos.equave)
\* C17: in every state of a MOS constructed with valid parameters and then
\* adjusted (adjustParams, adjustG, valid parameters) and retuned (the four
\* retune calls) in any order: a > 0, b > 0, gcd(a0, b0) = 1, depth is the
\* length of path, and 0 <= generator <= 1.
C17_MOSInvariants ==
    /\ mos.a > 0 /\ mos.b > 0
    /\ GreatestCommonDivisor(mos.a0, mos.b0) = 1
    /\ mos.depth = Len(mos.path)
    /\ RLe(Zero, mos.generator) /\ RLe(mos.generator, One)
\* tuning_coord.x strictly increasing with the node index
StrictlyIncreasingX(sc) ==
    \A i \in 1..(Len(sc.nodes_) - 1) :
        RLt(sc.nodes_[i].tuning_coord[1], sc.nodes_[i + 1].tuning_coord[1])

\* C18: from a MOS whose base_scale has strictly increasing tuning_coord.x,
\* one retuneOnePoint, retuneTwoPoints or retuneThreePoints call that
\* completes without error, whatever its lattice points and target, leaves
\* tuning_coord.x of base_scale strictly increasing.
C18_RetuneKeepsOrder ==
    [][(/\ last'.op \in {"retuneOnePoint", "retuneTwoPoints", "retuneThreePoints"}
        /\ err' = "none"
        /\ StrictlyIncreasingX(mos.base_scale)) => StrictlyIncreasingX(mos'.base_scale)]_vars
\* the fields of a MOS that describe its step pattern
Pattern(m) ==
    <<m.a, m.b, m.n, m.a0, m.b0, m.n0, m.mode, m.repetitions, m.path, m.depth, m.v_gen>>
\* natural_coord and tuning_coord.y of every node, in index order
Skeleton(sc) ==
    [i \in 1..Len(sc.nodes_) |-> <<sc.nodes_[i].natural_coord, sc.nodes_[i].tuning_coord[2]>>]

\* C19: every retune operation (retuneZeroPoint, retuneOnePoint,
\* retuneTwoPoints, non-degenerate retuneThreePoints) leaves unchanged a, b,
\* n, a0, b0, n0, mode, repetitions, path, depth, v_gen, the number of
\* base_scale nodes, every node's natural_coord and every node's
\* tuning_coord.y.
C19_RetuneKeepsPattern ==
    [][(/\ last'.op \in {"retuneZeroPoint", "retuneOnePoint", "retuneTwoPoints", "retuneThreePoints"}
        /\ err' = "none")
       => /\ Pattern(mos') = Pattern(mos)
          /\ Skeleton(mos'.base_scale) = Skeleton(mos.base_scale)]_vars
\* the consecutive natural_coord differences of a scale
Steps(sc) ==
    [i \in 1..(Len(sc.nodes_) - 1) |->
        VSub(sc.nodes_[i + 1].natural_coord, sc.nodes_[i].natural_coord)]
IsRotation(s, t) ==
    /\ Len(s) = Len(t)
    /\ \E k \in 0..(Len(s) - 1) : \A i \in 1..Len(s) : t[i] = s[((i - 1 + k) % Len(s)) + 1]

C21_RegenerationInPlace ==
    [][last'.op = "recalcWithAffine" =>
          /\ last'.N <= Len(scale.nodes_)
          /\ err' = "none"
          /\ Len(scale'.nodes_) = last'.N
          /\ scale'.root_idx_ = last'.root
          /\ scale'.nodes_[last'.root + 1].natural_coord = <<0, 0>>]_vars
\* C22: in every Scale state reached through fromAffine / recalcWithAffine,
\* retuneScaleWithMOS and temperToPitchSet, every node has
\* pitch = getBaseFreq() * 2^tuning_coord.x, the root node included, also
\* after a retune that passes a different base frequency.
C22_PitchMatchesTuning ==
    \A i \in 1..Len(scale.nodes_) :
        scale.nodes_[i].pitch = Pitch(scale.base_freq_, scale.nodes_[i].tuning_coord[1])
\* the image of the integer vector v under the integer map T
IntegerImage(T, v) == <<T.a * v[1] + T.b * v[2] + T.tx, T.c * v[1] + T.d * v[2] + T.ty>>

\* C23: for every valid (a, b) the integer linear map adjustParams requests
\* as mosTransform, sending (1,0) to (1,1) and v_gen to (a0,b0), exists with
\* integer coefficients and determinant +1 or -1: constructing or adjusting
\* a MOS never fails with a degenerate-transform error.
C23_MosTransformExists ==
    ((AdjustedByParams \/ AdjustedByG) /\ ValidFields) =>
        /\ err = "none"
        /\ Abs(mos.mosTransform.a * mos.mosTransform.d - mos.mosTransform.b * mos.mosTransform.c) = 1
        /\ IntegerImage(mos.mosTransform, <<1, 0>>) = <<1, 1>>
        /\ IntegerImage(mos.mosTransform, mos.v_gen) = <<mos.a0, mos.b0>>
\* exactly one of the two strip tests of a step from height y succeeds
ExactlyOneTest(y, zr, zs, sign) ==
    LET yr == IF sign = 1 THEN RAdd(y, zr[2]) ELSE RSub(y, zr[2])
        ys == IF sign = 1 THEN RAdd(y, zs[2]) ELSE RSub(y, zs[2])
    IN  InUnitStrip(yr) # InUnitStrip(ys)

C25_AdjustEqualsFresh ==
    [][/\ (last'.op = "adjustParams" /\ err' = "none") =>
             mos' = adjustParams(BlankMOS, last'.a, last'.b, last'.m, last'.e, last'.g).mos
       /\ (last'.op = "adjustG" /\ err' = "none") =>
             mos' = adjustG(BlankMOS, last'.depth, last'.m, last'.g, last'.e, last'.repetitions).mos]_vars

\* adjustParams has rebuilt a MOS that was retuned and tempered before
C25_Witness ==
    /\ calls = 2
    /\ last.op = "adjustParams" /\ err = "none"
    /\ mos.a = 2 /\ mos.b = 3 /\ mos.equave = RI(2)
    /\ \A i \in 1..Len(mos.base_scale.nodes_) : ~mos.base_scale.nodes_[i].isTempered
\* tuning_coord.x of the lattice point v under the MOS's transform
TuningX(m, v) == Apply(m.impliedAffine, v)[1]

\* C26: in every MOS state (after construction and after any retune) L_fr and
\* s_fr are the tuning_coord.x differences between two lattice points that
\* differ by L_vec and by s_vec, L_fr >= s_fr, chroma_fr = L_fr - s_fr,
\* nL + nS = n, and nL*L_fr + nS*s_fr = equave.
C26_StepSizes ==
    /\ REq(mos.L_fr, RSub(TuningX(mos, mos.L_vec), TuningX(mos, <<0, 0>>)))
    /\ REq(mos.s_fr, RSub(TuningX(mos, mos.s_vec), TuningX(mos, <<0, 0>>)))
    /\ RLe(mos.s_fr, mos.L_fr)
    /\ REq(mos.chroma_fr, RSub(mos.L_fr, mos.s_fr))
    /\ mos.nL + mos.nS = mos.n
    /\ REq(RAdd(RMul(RI(mos.nL), mos.L_fr), RMul(RI(mos.nS), mos.s_fr)), mos.equave)
\* the path of m takes (1,1) to (a0, b0) and (1,0) to v_gen, with determinant 1,
\* and the implied transform of m is solvable
PathUnimodular(m) ==
    /\ applyPath(m.path, <<1, 1>>) = <<m.a0, m.b0>>
    /\ m.v_gen = applyPath(m.path, <<1, 0>>)
    /\ m.v_gen[1] * m.b0 - m.v_gen[2] * m.a0 = 1
    /\ ~Collinear(<<0, 0>>, m.v_gen, <<m.a0, m.b0>>)
    /\ calcImpliedAffine(m).ok

\* coprime step counts, beyond the patterns a MOS is built with here
CoprimePairs == {p \in (1..(MaxStep + 2)) \X (1..(MaxStep + 2)) : GreatestCommonDivisor(p[1], p[2]) = 1}

\* C27: for coprime a0, b0 >= 1 the path of calcPath(a0, b0) is unimodular:
\* applyPath(path, (1,1)) = (a0, b0) and v_gen = applyPath(path, (1,0)) has
\* v_gen.x*b0 - v_gen.y*a0 = 1, so (0,0), v_gen, (a0, b0) are not collinear
\* and the implied transform is never singular; A.mapFromMOS(B, .) sends B's
\* (a0, b0) to A's (a0, b0) and B's v_gen to A's v_gen.
C27_PathUnimodular ==
    [][/\ (calls = 0) => (PathUnimodular(mos) /\ PathUnimodular(other))
       /\ (calls = 0) =>
             \A p \in CoprimePairs :
                 /\ applyPath(calcPath(p[1], p[2]), <<1, 1>>) = p
                 /\ applyPath(calcPath(p[1], p[2]), <<1, 0>>)[1] * p[2]
                      - applyPath(calcPath(p[1], p[2]), <<1, 0>>)[2] * p[1] = 1
       /\ (last'.op = "mapFromMOS" /\ last'.self = "mos") =>
             /\ (last'.v = <<other.a0, other.b0>>) => ret' = <<mos.a0, mos.b0>>
             /\ (last'.v = other.v_gen) => ret' = mos.v_gen
       /\ (last'.op = "mapFromMOS" /\ last'.self = "other") =>
             /\ (last'.v = <<mos.a0, mos.b0>>) => ret' = <<other.a0, other.b0>>
             /\ (last'.v = mos.v_gen) => ret' = other.v_gen]_vars

\* mapFromMOS has taken the step counts of another pattern to this one's
C27_Witness ==
    /\ last.op = "mapFromMOS" /\ last.self = "mos"
    /\ last.v = <<other.a0, other.b0>>
    /\ Len(mos.path) > Len(other.path)
    /\ ret = <<mos.a0, mos.b0>>
\* C28: for every n_nodes >= 0 and every root, also roots larger than 128*n,
\* each base_scale index computed by generateScaleFromMOS lies in [0, n) and
\* the octave number computed for the node at position k is
\* floor((k - root) / n); no read of base_scale is out of bounds.
C28_IndicesInRange ==
    last.op = "generateScaleFromMOS" =>
        \A k \in 0..(last.n_nodes - 1) :
            /\ 0 <= baseScaleIndex(mos, k - last.root)
            /\ baseScaleIndex(mos, k - last.root) < mos.n
            /\ InBaseScale(mos, baseScaleIndex(mos, k - last.root))
            /\ octaveNr(mos, k - last.root) = (k - last.root) \div mos.n
\* natural_coord and tuning_coord of every node, in index order
Coordinates(sc) == [k \in 1..Len(sc.nodes_) |-> <<sc.nodes_[k].natural_coord, sc.nodes_[k].tuning_coord>>]

RECURSIVE Residuals(_, _, _)
Residuals(i, a_len, b_len) ==
    IF i <= 0 THEN <<a_len, b_len>>
    ELSE IF RLt(b_len, a_len) THEN Residuals(i - 1, RSub(a_len, b_len), b_len)
         ELSE Residuals(i - 1, a_len, RSub(b_len, a_len))

\* tuning_coord.x never decreases with the node index
NonDecreasingX(sc) ==
    \A i \in 1..(Len(sc.nodes_) - 1) :
        RLe(sc.nodes_[i].tuning_coord[1], sc.nodes_[i + 1].tuning_coord[1])

\* C30: the MOS returned by fromG(depth, m, g, e, repetitions), depth >= 0,
\* 0 <= g <= 1, e > 0, repetitions >= 1, has the x-images of (1,0) and (0,1)
\* non-negative (s_fr >= 0) and equal to period times the two residual
\* sub-lengths of the unfolding, and tuning_coord.x of base_scale is
\* non-decreasing with the index.
C30_FromGStepSizes ==
    last.op = "fromG" =>
        LET res == Residuals(last.depth, last.g, RSub(One, last.g))
        IN  /\ REq(TuningX(mos, <<1, 0>>), RMul(mos.period, res[1]))
            /\ REq(TuningX(mos, <<0, 1>>), RMul(mos.period, res[2]))
            /\ RLe(Zero, TuningX(mos, <<1, 0>>)) /\ RLe(Zero, TuningX(mos, <<0, 1>>))
            /\ RLe(Zero, mos.s_fr)
            /\ NonDecreasingX(mos.base_scale)

\* fromG has unfolded a generator to the end: one residual sub-length is zero
C30_Witness ==
    /\ last.op = "fromG" /\ calls = 0
    /\ last.depth = MaxDepth /\ last.repetitions = MaxReps
    /\ REq(mos.s_fr, Zero) /\ RLt(Zero, mos.L_fr)
    /\ Len(mos.base_scale.nodes_) = mos.n + 1
====
